---- MODULE Spec2Model ----
(***************************************************************************)
(* A model of getReadableText (src/src/readable.ts): the callback that     *)
(* page.evaluate runs over a rendered document and that turns it into a    *)
(* list of output lines plus a link table.                                 *)
(*                                                                         *)
(* Text is a sequence of characters.  A character is a one-letter string;  *)
(* the four non-ASCII characters the code tests for are written as the     *)
(* tokens "NBSP" (U+00A0), "BULLET" (U+2022), "MIDDOT" (U+00B7) and        *)
(* "ELLIPSIS" (U+2026).  Each token counts as one character of length.     *)
(***************************************************************************)
EXTENDS Integers, Sequences, FiniteSets, TLC

(***************************************************************************)
(* Characters and elementary string operations                            *)
(***************************************************************************)

\* Number.POSITIVE_INFINITY / Infinity: larger than every quantity of the model.
Infinity == 1000000

IsFinite(n) == n < Infinity

LowerLetters ==
    {"a","b","c","d","e","f","g","h","i","j","k","l","m",
     "n","o","p","q","r","s","t","u","v","w","x","y","z"}

UpperLetters ==
    {"A","B","C","D","E","F","G","H","I","J","K","L","M",
     "N","O","P","Q","R","S","T","U","V","W","X","Y","Z"}

DigitChars == <<"0","1","2","3","4","5","6","7","8","9">>

\* \w of a JavaScript regular expression.
IsWordChar(c) ==
    c \in LowerLetters \cup UpperLetters \cup {"_"} \cup {DigitChars[i] : i \in 1..10}

\* \s of a JavaScript regular expression (U+00A0 is white space to it).
IsSpace(c) == c \in {" ", "NBSP", "\t", "\n"}

UpperToLower ==
    [c \in UpperLetters |->
        CASE c = "A" -> "a" [] c = "B" -> "b" [] c = "C" -> "c" [] c = "D" -> "d"
          [] c = "E" -> "e" [] c = "F" -> "f" [] c = "G" -> "g" [] c = "H" -> "h"
          [] c = "I" -> "i" [] c = "J" -> "j" [] c = "K" -> "k" [] c = "L" -> "l"
          [] c = "M" -> "m" [] c = "N" -> "n" [] c = "O" -> "o" [] c = "P" -> "p"
          [] c = "Q" -> "q" [] c = "R" -> "r" [] c = "S" -> "s" [] c = "T" -> "t"
          [] c = "U" -> "u" [] c = "V" -> "v" [] c = "W" -> "w" [] c = "X" -> "x"
          [] c = "Y" -> "y" [] OTHER -> "z"]

\* String.prototype.toLowerCase
toLowerCase(s) ==
    [i \in 1..Len(s) |-> IF s[i] \in UpperLetters THEN UpperToLower[s[i]] ELSE s[i]]

\* String.prototype.startsWith
startsWith(s, p) == Len(s) >= Len(p) /\ SubSeq(s, 1, Len(p)) = p

\* String.prototype.includes
includes(s, p) == \E i \in 1..(Len(s) - Len(p) + 1) : SubSeq(s, i, i + Len(p) - 1) = p

\* String.prototype.slice(0, n) for n >= 0
sliceTo(s, n) == SubSeq(s, 1, IF n < Len(s) THEN n ELSE Len(s))

\* String.prototype.slice(n)
sliceFrom(s, n) == SubSeq(s, n + 1, Len(s))

\* The first index at or after i that holds no white space (Len(s)+1 if none).
RECURSIVE SkipWS(_, _)
SkipWS(s, i) == IF i > Len(s) \/ ~IsSpace(s[i]) THEN i ELSE SkipWS(s, i + 1)

\* The last index at or before i that holds no white space (0 if none).
RECURSIVE SkipWSBack(_, _)
SkipWSBack(s, i) == IF i < 1 \/ ~IsSpace(s[i]) THEN i ELSE SkipWSBack(s, i - 1)

\* String.prototype.trimEnd
trimEnd(s) == SubSeq(s, 1, SkipWSBack(s, Len(s)))

\* String.prototype.trim
trim(s) == SubSeq(s, SkipWS(s, 1), SkipWSBack(s, Len(s)))

\* replace(/\s+/g, ' ')
collapseWS(s) ==
    LET marked == [i \in 1..Len(s) |->
                      <<IF IsSpace(s[i]) THEN " " ELSE s[i],
                        IsSpace(s[i]) /\ i > 1 /\ IsSpace(s[i - 1])>>]
        keep(m) == ~m[2]
        kept == SelectSeq(marked, keep)
    IN  [i \in 1..Len(kept) |-> kept[i][1]]

\* replace(/[•·]/g, '')
IsBulletGlyph(c) == c \in {"BULLET", "MIDDOT"}

stripBulletGlyphs(s) ==
    LET keep(c) == ~IsBulletGlyph(c) IN SelectSeq(s, keep)

\* The decimal digits of n >= 0, as `${n}` writes them.
RECURSIVE Digits(_)
Digits(n) == IF n < 10 THEN <<DigitChars[n + 1]>>
             ELSE Append(Digits(n \div 10), DigitChars[(n % 10) + 1])

\* ' '.repeat(2 * n)
RECURSIVE Indent(_)
Indent(n) == IF n <= 0 THEN <<>> ELSE <<" ", " ">> \o Indent(n - 1)

\* '#'.repeat(n)
Hashes(n) == [i \in 1..n |-> "#"]

(***************************************************************************)
(* Cleaner / normalizer (readable.ts 166-211)                              *)
(***************************************************************************)

\* normalize: NBSP to space, white-space runs to one space, trim.
normalize(text) ==
    trim(collapseWS([i \in 1..Len(text) |-> IF text[i] = "NBSP" THEN " " ELSE text[i]]))

\* \b(w)\b somewhere in text, for a word w of word characters.
containsWord(text, w) ==
    \E i \in 1..(Len(text) - Len(w) + 1) :
        /\ SubSeq(text, i, i + Len(w) - 1) = w
        /\ (i = 1 \/ ~IsWordChar(text[i - 1]))
        /\ (i + Len(w) > Len(text) \/ ~IsWordChar(text[i + Len(w)]))

\* looksLikeCss answers false unless the text holds both braces.  No text or
\* URL of the documents below holds a brace, so the two patterns behind that
\* test are never consulted; they are over-approximated by TRUE.
looksLikeCss(text) ==
    IF ~(includes(text, <<"{">>) /\ includes(text, <<"}">>)) THEN FALSE ELSE TRUE

\* /\b(document|window|this)\./
refersToGlobal(text) ==
    \E w \in {<<"d","o","c","u","m","e","n","t">>, <<"w","i","n","d","o","w">>,
              <<"t","h","i","s">>} :
        \E i \in 1..(Len(text) - Len(w)) :
            /\ SubSeq(text, i, i + Len(w)) = Append(w, ".")
            /\ (i = 1 \/ ~IsWordChar(text[i - 1]))

looksLikeCode(text) ==
    \/ looksLikeCss(text)
    \/ startsWith(text, <<"/", "/">>)
    \/ startsWith(text, <<"/", "*">>)
    \/ \E w \in {<<"c","o","n","s","t">>, <<"l","e","t">>, <<"v","a","r">>,
                 <<"f","u","n","c","t","i","o","n">>} : containsWord(text, w)
    \/ LET e == SkipWSBack(text, Len(text)) IN e >= 1 /\ text[e] \in {";", "{", "}"}
    \/ refersToGlobal(text)
    \/ includes(text, <<"=", ">">>)

cleanText(text) ==
    LET check(cleaned) ==
            IF cleaned = <<>> THEN <<>>
            ELSE IF trim(stripBulletGlyphs(cleaned)) = <<>> THEN <<>>
            ELSE IF looksLikeCode(cleaned) THEN <<>>
            ELSE cleaned
    IN  check(normalize(text))

\* One match of \s*•\s* starting at i: the index after it, or 0 if none.
BulletUnit(s, i) ==
    LET j == SkipWS(s, i)
    IN  IF j <= Len(s) /\ s[j] = "BULLET" THEN SkipWS(s, j + 1) ELSE 0

\* The index after the longest run of \s*•\s* units starting at i.
RECURSIVE BulletRunEnd(_, _)
BulletRunEnd(s, i) ==
    LET j == BulletUnit(s, i) IN IF j = 0 THEN i ELSE BulletRunEnd(s, j)

\* replace(/(?:\s*•\s*){2,}/g, ' • ') from index i on, appended to out.
RECURSIVE collapseBulletRuns(_, _, _)
collapseBulletRuns(s, i, out) ==
    IF i > Len(s) THEN out
    ELSE LET j1 == BulletUnit(s, i)
             j2 == IF j1 = 0 THEN 0 ELSE BulletUnit(s, j1)
         IN  IF j2 # 0
             THEN collapseBulletRuns(s, BulletRunEnd(s, j2), out \o <<" ", "BULLET", " ">>)
             ELSE collapseBulletRuns(s, i + 1, Append(out, s[i]))

\* replace(/^\s*•\s*|\s*•\s*$/g, '')
stripEdgeBullets(s) ==
    LET cutEnd(r, e) ==
            IF e >= 1 /\ r[e] = "BULLET" THEN SubSeq(r, 1, SkipWSBack(r, e - 1)) ELSE r
        atEnd(r) == cutEnd(r, SkipWSBack(r, Len(r)))
        atStart(lead) == IF lead = 0 THEN s ELSE SubSeq(s, lead, Len(s))
    IN  atEnd(atStart(BulletUnit(s, 1)))

\* A text without a bullet has no match of the pattern and is left as it is.
normalizeBullets(text) ==
    IF \A i \in 1..Len(text) : text[i] # "BULLET" THEN trim(text)
    ELSE trim(stripEdgeBullets(collapseBulletRuns(text, 1, <<>>)))

\* replace(/updated\s+[^•]+/g, 'updated'): from each "updated" followed by
\* white space, everything up to the next bullet (or the end) is dropped.
RECURSIVE stripUpdated(_, _, _)
stripUpdated(s, i, out) ==
    LET w == <<"u","p","d","a","t","e","d">>
    IN  IF i > Len(s) THEN out
        ELSE IF /\ i + 7 <= Len(s)
                /\ SubSeq(s, i, i + 6) = w
                /\ IsSpace(s[i + 7])
                /\ SkipWS(s, i + 7) <= Len(s)
                /\ s[SkipWS(s, i + 7)] # "BULLET"
             THEN LET stop == CHOOSE k \in (i + 8)..(Len(s) + 1) :
                                  /\ (k = Len(s) + 1 \/ s[k] = "BULLET")
                                  /\ \A m \in SkipWS(s, i + 7)..(k - 1) : s[m] # "BULLET"
                  IN  stripUpdated(s, stop, out \o w)
             ELSE stripUpdated(s, i + 1, Append(out, s[i]))

\* A text without "updated" has no match of the first pattern.
fingerprintLine(text) ==
    LET lowered == collapseWS(toLowerCase(text))
        base    == IF includes(lowered, <<"u","p","d","a","t","e","d">>)
                   THEN stripUpdated(lowered, 1, <<>>) ELSE lowered
    IN  trim(stripBulletGlyphs(base))

\* line.match(/^(#+\s*)/): the length of the run of # and the white space after it.
RECURSIVE HashRun(_, _)
HashRun(s, i) == IF i <= Len(s) /\ s[i] = "#" THEN HashRun(s, i + 1) ELSE i

HeadingPrefixLen(line) == SkipWS(line, HashRun(line, 1)) - 1

NoRef == <<>>

decorateLine(line, linkRef) ==
    IF linkRef = NoRef THEN line
    ELSE IF startsWith(line, <<"-", " ">>)
         THEN <<"-", " ">> \o linkRef \o <<" ">> \o sliceFrom(line, 2)
    ELSE IF startsWith(line, <<"#">>)
         THEN sliceTo(line, HeadingPrefixLen(line)) \o linkRef \o <<" ">>
                  \o sliceFrom(line, HeadingPrefixLen(line))
    ELSE linkRef \o <<" ">> \o line

\* trimLine without its cut.
trimLineNever(text, maxLineLength) == text

trimLine(text, maxLineLength) ==
    IF ~IsFinite(maxLineLength) THEN text
    ELSE IF Len(text) <= maxLineLength THEN text
    ELSE Append(trimEnd(sliceTo(text, maxLineLength - 1)), "ELLIPSIS")

(***************************************************************************)
(* State                                                                   *)
(***************************************************************************)

VARIABLES
    opts,               \* the ReadableOptions of the call (an absent option is <<>>)
    doc,                \* the document of the call: its elements, in document order
    pc,                 \* where the evaluate callback stands
    roots,              \* roots, in order
    shellRoots,         \* shellRoots, in order
    stack,              \* the pending walk / handleList frames, innermost first
    saved,              \* withShellMode's prevMode, prevRemaining, prevWalkMode
    iter,               \* the loop position of the current phase
    walkMode,
    shellMode,
    shellRemaining,
    maxLineLength,
    itemCount,
    truncated,
    lines,
    fingerprintWindow,
    fingerprintSet,
    linkMap,
    linkList,
    linkCounter,
    prov                \* history: for each entry of lines, where it came from

ctlVars == <<opts, doc, pc, roots, shellRoots, stack, saved, iter, walkMode>>

ctxVars == <<shellMode, shellRemaining, maxLineLength, itemCount, truncated, lines,
             fingerprintWindow, fingerprintSet, linkMap, linkList, linkCounter, prov>>

vars == <<opts, doc, pc, roots, shellRoots, stack, saved, iter, walkMode,
          shellMode, shellRemaining, maxLineLength, itemCount, truncated, lines,
          fingerprintWindow, fingerprintSet, linkMap, linkList, linkCounter, prov>>

(***************************************************************************)
(* Option resolution (readable.ts 33-48)                                   *)
(***************************************************************************)

Max(a, b) == IF a >= b THEN a ELSE b
Min(a, b) == IF a <= b THEN a ELSE b

DefaultMaxDepth == 6
MinMaxItems == 1
MinMaxListItems == 1
MinLineLength == 40
DefaultLineLimit == 300
ArticleLineLength == 360
MinDedupeWindow == 10
DefaultDedupeWindow == 120
ShellItemLimit == 60
ShellLinkLimit == 60

maxDepth == IF opts.maxDepth # <<>> THEN Max(0, opts.maxDepth[1]) ELSE DefaultMaxDepth

maxItems == IF opts.maxItems # <<>> THEN Max(MinMaxItems, opts.maxItems[1]) ELSE Infinity

maxListItems ==
    IF opts.maxListItems # <<>> THEN Max(MinMaxListItems, opts.maxListItems[1]) ELSE Infinity

\* The value maxLineLength is declared with (it is widened later for an article).
initialMaxLineLength ==
    IF opts.maxLineLength # <<>> THEN Max(MinLineLength, opts.maxLineLength[1]) ELSE Infinity

filterMode == IF opts.filterMode = "" THEN "summary" ELSE opts.filterMode

lineLimit == IF IsFinite(initialMaxLineLength) THEN initialMaxLineLength ELSE DefaultLineLimit

linksEnabled == opts.links # <<FALSE>>

dedupeEnabled == opts.dedupe # <<FALSE>>

dedupeWindow ==
    IF opts.dedupeWindow # <<>> THEN Max(MinDedupeWindow, opts.dedupeWindow[1])
    ELSE DefaultDedupeWindow

includeFooter == opts.includeFooter = <<TRUE>>

includeShell == opts.includeShell = <<TRUE>>

(***************************************************************************)
(* The Extraction Context as one value, for the operators that update it   *)
(***************************************************************************)

Ctx ==
    [shellMode |-> shellMode, shellRemaining |-> shellRemaining,
     maxLineLength |-> maxLineLength, itemCount |-> itemCount,
     truncated |-> truncated, lines |-> lines,
     fingerprintWindow |-> fingerprintWindow, fingerprintSet |-> fingerprintSet,
     linkMap |-> linkMap, linkList |-> linkList, linkCounter |-> linkCounter,
     prov |-> prov]

SetCtx(c) ==
    /\ shellMode' = c.shellMode
    /\ shellRemaining' = c.shellRemaining
    /\ maxLineLength' = c.maxLineLength
    /\ itemCount' = c.itemCount
    /\ truncated' = c.truncated
    /\ lines' = c.lines
    /\ fingerprintWindow' = c.fingerprintWindow
    /\ fingerprintSet' = c.fingerprintSet
    /\ linkMap' = c.linkMap
    /\ linkList' = c.linkList
    /\ linkCounter' = c.linkCounter
    /\ prov' = c.prov

SetCtxInit ==
    /\ shellMode = FALSE
    /\ shellRemaining = 0
    /\ maxLineLength = initialMaxLineLength
    /\ itemCount = 0
    /\ truncated = FALSE
    /\ lines = <<>>
    /\ fingerprintWindow = <<>>
    /\ fingerprintSet = {}
    /\ linkMap = <<>>
    /\ linkList = <<>>
    /\ linkCounter = 0
    /\ prov = <<>>

InitialCtx ==
    [shellMode |-> FALSE, shellRemaining |-> 0,
     maxLineLength |-> initialMaxLineLength, itemCount |-> 0,
     truncated |-> FALSE, lines |-> <<>>,
     fingerprintWindow |-> <<>>, fingerprintSet |-> {},
     linkMap |-> <<>>, linkList |-> <<>>, linkCounter |-> 0,
     prov |-> <<>>]

(***************************************************************************)
(* Dedup & emission engine (readable.ts 233-256)                           *)
(***************************************************************************)

isHeadingLine(cleaned) == startsWith(cleaned, <<"#">>)

\* The dedupe bookkeeping of addLine, lines 248-255.
pushFingerprint(c, fingerprint) ==
    IF ~dedupeEnabled THEN c
    ELSE LET set1 == c.fingerprintSet \cup {fingerprint}
             win1 == Append(c.fingerprintWindow, fingerprint)
         IN  IF Len(win1) > dedupeWindow
             THEN LET removed == Head(win1)
                  IN  [c EXCEPT !.fingerprintWindow = Tail(win1),
                                !.fingerprintSet =
                                    IF removed # <<>> THEN set1 \ {removed} ELSE set1]
             ELSE [c EXCEPT !.fingerprintWindow = win1, !.fingerprintSet = set1]

\* shellExhausted without its test: the shell budget is never used up.
shellNeverExhausted(c) == FALSE

\* Line 235: in shell mode with no budget left.
shellExhausted(c) == c.shellMode /\ c.shellRemaining <= 0

\* isDuplicate without its exemption: a heading is dropped like any line.
isDuplicateHeadingToo(c, cleaned, fingerprint) ==
    dedupeEnabled /\ fingerprint \in c.fingerprintSet

\* Line 240: the candidate is dropped as a duplicate.
isDuplicate(c, cleaned, fingerprint) ==
    dedupeEnabled /\ ~isHeadingLine(cleaned) /\ fingerprint \in c.fingerprintSet

\* overBudget without its test: the item budget is never used up.
neverOverBudget(c) == FALSE

\* Line 241: the item budget is used up.
overBudget(c) == c.itemCount >= maxItems

addLine(c, line, linkRef) ==
    LET append(cleaned, fingerprint) ==
            IF isDuplicate(c, cleaned, fingerprint) THEN c
            ELSE IF overBudget(c) THEN [c EXCEPT !.truncated = TRUE]
            ELSE pushFingerprint(
                     [c EXCEPT
                        !.lines = Append(@, trimLine(decorateLine(cleaned, linkRef),
                                                     c.maxLineLength)),
                        !.itemCount = @ + 1,
                        !.shellRemaining = IF c.shellMode THEN @ - 1 ELSE @],
                     fingerprint)
        add(cleaned) ==
            IF cleaned = <<>> THEN c ELSE append(cleaned, fingerprintLine(cleaned))
    IN  IF c.truncated THEN c
        ELSE IF shellExhausted(c) THEN c
        ELSE add(normalizeBullets(cleanText(line)))

\* addLine, with the history of what the appended line came from: exactly
\* when addLine appended a line, prov gets origin together with the cleaned
\* text of the candidate (cleaned) and its decorated text before trimLine
\* (full).
Emit(c, line, linkRef, origin) ==
    LET entry(cleaned) ==
            origin @@ [cleaned |-> cleaned, full |-> decorateLine(cleaned, linkRef)]
        record(d) ==
            IF Len(d.lines) > Len(c.lines)
            THEN [d EXCEPT !.prov = Append(@, entry(normalizeBullets(cleanText(line))))]
            ELSE d
    IN  record(addLine(c, line, linkRef))

(***************************************************************************)
(* Link registry (readable.ts 289-307)                                     *)
(***************************************************************************)

rejectedHref(trimmed) ==
    \/ trimmed = <<>>
    \/ startsWith(trimmed, <<"j","a","v","a","s","c","r","i","p","t",":">>)
    \/ startsWith(trimmed, <<"#">>)
    \/ startsWith(trimmed, <<"d","a","t","a",":">>)
    \/ startsWith(trimmed, <<"b","l","o","b",":">>)

\* registerLink: the context after the call (c) and what it returns (ref;
\* NoRef for undefined).
\* knownLink without its lookup: every URL is taken for a new one.
neverKnownLink(c, trimmed) == FALSE

\* Line 299: the URL has a reference already.
knownLink(c, trimmed) == trimmed \in DOMAIN c.linkMap

registerLink(c, href) ==
    LET lookup(trimmed) ==
            IF rejectedHref(trimmed) THEN [c |-> c, ref |-> NoRef]
            ELSE IF knownLink(c, trimmed)
            THEN [c |-> c, ref |-> <<"@">> \o c.linkMap[trimmed]]
            ELSE LET ref == <<"L">> \o Digits(c.linkCounter + 1)
                 IN  [c |-> [c EXCEPT !.linkCounter = @ + 1,
                                      !.linkMap = (trimmed :> ref) @@ @,
                                      !.linkList = Append(@, [ref |-> ref, href |-> trimmed])],
                      ref |-> <<"@">> \o ref]
    IN  lookup(trim(href))

(***************************************************************************)
(* Documents: the rendered tree the host hands to the callback             *)
(*                                                                         *)
(* A document is a sequence of elements numbered in document order         *)
(* (preorder), element 1 being <body>.  An element has a tag, one leading  *)
(* text node (text), its element children (kids), what isHidden answers    *)
(* for it (hidden), its href attribute (a), its resolved source and alt    *)
(* (img), and whether it carries an active-chip state (active).  The       *)
(* documents carry no role, aria-* or data-* attribute.                    *)
(***************************************************************************)

El(tag, text, kids) ==
    [tag |-> tag, text |-> text, kids |-> kids, parent |-> 0, hidden |-> FALSE,
     href |-> <<>>, src |-> <<>>, alt |-> <<>>, active |-> FALSE]

A(text, href) == [El("a", text, <<>>) EXCEPT !.href = href]

Img(alt, src) == [El("img", <<>>, <<>>) EXCEPT !.alt = alt, !.src = src]

\* Sizes of the documents' repeated parts.
ShellHeadings == 61
LongWords == 183
UrlTail == 38

\* "w w w ... w": LongWords one-letter words, 2 * LongWords - 1 characters.
LongText == [i \in 1..(2 * LongWords - 1) |-> IF i % 2 = 1 THEN "w" ELSE " "]

\* "h/qqq...q": a URL of UrlTail + 2 characters.
LongUrl == <<"h", "/">> \o [i \in 1..UrlTail |-> "q"]

\* "h/x;": a URL whose table line ends like a statement.
CodeUrl == <<"h", "/", "x", ";">>

TxtOne == <<"o", "n", "e">>
TxtTwo == <<"t", "w", "o">>
TxtSub == <<"s", "u", "b">>
TxtSix == <<"s", "i", "x">>
TxtTitle == <<"T", "o", "p">>
TxtEnd == <<"s", "e", "e", " ", "a", "l", "s", "o">>
TxtHead == <<"h", "e", "a", "d">>
TxtFoot == <<"f", "o", "o", "t">>
TxtBody == <<"b", "o", "d", "y", " ", "o", "f", " ", "i", "t", " ", "a", "l", "l">>
TxtNav == <<"n", "a", "v">>
TxtMenu == <<"m", "e", "n", "u">>
TxtArt == <<"a", "r", "t">>
TxtPic == <<"L", "o", "g", "o">>
TxtGone == <<"g", "o", "n", "e">>
TxtDeep == <<"d", "e", "e", "p">>
TxtColor == <<"C", "o", "l", "o", "r">>
TxtRed == <<"R", "e", "d">>
TxtGreen == <<"G", "r", "e", "e", "n">>
TxtBlue == <<"B", "l", "u", "e">>
TxtYellow == <<"Y", "e", "l", "l", "o", "w">>
TxtPlus == <<"+", "2", " ", "m", "o", "r", "e">>

\* Two lists (the first with a nested list), a heading, a paragraph with two
\* links, and a script.
ListsDoc ==
    << El("body", <<>>, <<2, 3, 9, 13, 16>>),
       El("h2", TxtTitle, <<>>),
       El("ul", <<>>, <<4, 5, 8>>),
       El("li", TxtOne, <<>>),
       El("li", TxtTwo, <<6>>),
       El("ul", <<>>, <<7>>),
       El("li", TxtSub, <<>>),
       El("li", TxtSix, <<>>),
       El("ul", <<>>, <<10, 11, 12>>),
       El("li", <<"a", "b">>, <<>>),
       El("li", <<"c", "d">>, <<>>),
       El("li", <<"e", "f">>, <<>>),
       El("p", TxtEnd, <<14, 15>>),
       A(<<"u", "p">>, <<" ">> \o LongUrl),
       A(<<"g", "o">>, CodeUrl),
       El("script", <<"x", "=", "1">>, <<>>) >>

\* Landmarks: a header (holding an article), main (holding a nav), a footer,
\* and a hidden short label.
LandmarkDoc ==
    << El("body", <<>>, <<2, 6, 11, 13>>),
       El("header", <<>>, <<3, 4>>),
       El("p", TxtHead, <<>>),
       El("article", <<>>, <<5>>),
       El("p", TxtArt, <<>>),
       El("main", <<>>, <<7, 8>>),
       El("p", TxtBody, <<>>),
       El("nav", <<>>, <<9, 10>>),
       A(TxtNav, <<"u", "1">>),
       A(TxtMenu, <<"u", "2">>),
       El("footer", <<>>, <<12>>),
       El("p", TxtFoot, <<>>),
       [El("div", TxtGone, <<>>) EXCEPT !.hidden = TRUE] >>

\* An article that qualifies as the root (three paragraphs), with a long
\* paragraph and an image, beside a nav and a footer.
ArticleDoc ==
    << El("body", <<>>, <<2, 5, 11>>),
       El("nav", <<>>, <<3, 4>>),
       A(TxtNav, <<"u", "1">>),
       A(TxtMenu, <<"u", "1", " ">>),
       El("article", <<>>, <<6, 7, 8, 9, 10>>),
       El("h1", TxtTitle, <<>>),
       El("p", TxtBody, <<>>),
       El("p", LongText, <<>>),
       El("p", TxtEnd, <<>>),
       Img(TxtPic, LongUrl),
       El("footer", <<>>, <<12>>),
       El("p", TxtFoot, <<>>) >>

\* A nav of ShellHeadings headings before an article that qualifies as the root.
ShellDoc ==
    << El("body", <<>>, <<2, ShellHeadings + 3>>),
       El("nav", <<>>, [i \in 1..ShellHeadings |-> i + 2]) >>
    \o [i \in 1..ShellHeadings |-> El("h3", TxtMenu, <<>>)]
    \o << El("article", <<>>, <<ShellHeadings + 4, ShellHeadings + 5, ShellHeadings + 6>>),
          El("p", TxtOne, <<>>),
          El("p", TxtTwo, <<>>),
          El("p", TxtSix, <<>>) >>

\* A container whose text lies three spans deep, and a filter group: the label
\* Color and the chips Red (active), Green, Blue, Yellow and "+2 more".
WidgetDoc ==
    << El("body", <<>>, <<2, 6>>),
       El("div", <<>>, <<3>>),
       El("span", <<>>, <<4>>),
       El("span", <<>>, <<5>>),
       El("span", TxtDeep, <<>>),
       El("div", <<>>, <<7, 8, 9, 10, 11, 12>>),
       El("span", TxtColor, <<>>),
       [El("button", TxtRed, <<>>) EXCEPT !.active = TRUE],
       El("button", TxtGreen, <<>>),
       El("button", TxtBlue, <<>>),
       El("button", TxtYellow, <<>>),
       El("button", TxtPlus, <<>>) >>

Docs == <<ListsDoc, LandmarkDoc, ArticleDoc, ShellDoc, WidgetDoc>>

\* The elements of the current document.
D == doc

Elements == 1..Len(D)

tagOf(el) == D[el].tag

children(el) == D[el].kids

Range(seq) == {seq[i] : i \in 1..Len(seq)}

\* Document d with every element's parentElement filled in (0: none).
Document(d) ==
    [el \in 1..Len(Docs[d]) |->
        [Docs[d][el] EXCEPT !.parent =
            IF \E q \in 1..Len(Docs[d]) : el \in Range(Docs[d][q].kids)
            THEN CHOOSE q \in 1..Len(Docs[d]) : el \in Range(Docs[d][q].kids)
            ELSE 0]]

\* el.parentElement (0: none)
parentElement(el) == doc[el].parent

\* el and its ancestors
RECURSIVE SelfAndAncestors(_)
SelfAndAncestors(el) ==
    IF el = 0 THEN {} ELSE {el} \cup SelfAndAncestors(doc[el].parent)

\* root.contains(node)
contains(root, node) == root \in SelfAndAncestors(node)

\* el.closest(<one of tags>) is not null
closestIn(el, tags) == \E q \in SelfAndAncestors(el) : tagOf(q) \in tags

\* A set of elements as a sequence in document order.
InOrder(S) ==
    LET member(q) == q \in S IN SelectSeq([i \in 1..Len(D) |-> i], member)

\* The proper descendants of el.
Descendants(el) == {q \in Elements : q # el /\ contains(el, q)}

\* el.querySelectorAll(<tags>), and document.querySelectorAll(<tags>)
querySelectorAll(el, tags) == InOrder({q \in Descendants(el) : tagOf(q) \in tags})

documentQueryAll(tags) == InOrder({q \in Elements : tagOf(q) \in tags})

\* el.querySelector(<tags>) is not null
hasDescendant(el, tags) == \E q \in Descendants(el) : tagOf(q) \in tags

\* a[href]
isAnchorWithHref(q) == tagOf(q) = "a" /\ D[q].href # <<>>

anchorsUnder(el) == InOrder({q \in Descendants(el) : isAnchorWithHref(q)})

SKIP_TAGS ==
    {"script", "style", "svg", "noscript", "template", "canvas", "iframe", "head",
     "meta", "link"}

HEADING_TAGS == {"h1", "h2", "h3", "h4", "h5", "h6"}

HEADING_LIKE_TAGS == {"summary", "legend"}

BLOCK_TEXT_TAGS == {"p", "blockquote", "pre", "figcaption", "address", "dd", "dt"}

CONTAINER_TAGS ==
    {"section", "article", "main", "div", "aside", "header", "footer", "form", "fieldset"}

\* isHidden(el), as the host's attributes and computed style answer it.
isHidden(el) == D[el].hidden

\* Joins parts with sep.
RECURSIVE join(_, _)
join(parts, sep) ==
    IF parts = <<>> THEN <<>>
    ELSE IF Len(parts) = 1 THEN parts[1]
    ELSE parts[1] \o sep \o join(Tail(parts), sep)

\* el.textContent: the text of el and of all its descendants, in order.
textContent(el) ==
    LET order == <<el>> \o InOrder(Descendants(el))
    IN  join([i \in 1..Len(order) |-> D[order[i]].text], <<>>)

\* Whether the host renders el: neither it nor an ancestor is hidden or of a
\* tag that is never rendered.
isRendered(el) ==
    \A q \in SelfAndAncestors(el) : ~isHidden(q) /\ tagOf(q) \notin SKIP_TAGS

INLINE_TAGS == {"a", "span", "strong", "button", "label", "img"}

\* Whether el starts a rendered line of its own.
isBlock(el) == tagOf(el) \notin INLINE_TAGS

\* The nearest block at or above el.
RECURSIVE blockOf(_)
blockOf(el) == IF isBlock(el) \/ parentElement(el) = 0 THEN el ELSE blockOf(parentElement(el))

\* el.innerText split on line breaks: one line per rendered block under el that
\* has text, holding its text and that of its inline descendants.
innerTextLines(el) ==
    LET scope  == {q \in {el} \cup Descendants(el) : isRendered(q)}
        blocks == InOrder({q \in scope : q = el \/ isBlock(q)})
        lineOf(b) ==
            LET parts == InOrder({q \in scope : (IF q = el THEN el ELSE blockOf(q)) = b
                                                /\ (q = b \/ ~isBlock(q))
                                                /\ D[q].text # <<>>})
            IN  join([i \in 1..Len(parts) |-> D[parts[i]].text], <<" ">>)
        all == [i \in 1..Len(blocks) |-> lineOf(blocks[i])]
        nonEmpty(l) == l # <<>>
    IN  SelectSeq(all, nonEmpty)

\* String(el.innerText || '').trim().length
innerTextLength(el) == Len(trim(join(innerTextLines(el), <<"\n">>)))

(***************************************************************************)
(* Root selection (readable.ts 53-116)                                     *)
(***************************************************************************)

MinArticleText == 400
MinArticleParagraphs == 3
ParagraphWeight == 200
LinkPenalty == 20

\* paragraphs.map(p => String(p.innerText || '').trim()).join(' ').length
paragraphTextLength(article) ==
    LET ps == querySelectorAll(article, {"p"})
    IN  Len(join([i \in 1..Len(ps) |-> trim(join(innerTextLines(ps[i]), <<"\n">>))], <<" ">>))

articleScore(article) ==
    paragraphTextLength(article)
        + Len(querySelectorAll(article, {"p"})) * ParagraphWeight
        - Len(querySelectorAll(article, {"a"})) * LinkPenalty

articleQualifies(article) ==
    /\ \/ paragraphTextLength(article) >= MinArticleText
       \/ Len(querySelectorAll(article, {"p"})) >= MinArticleParagraphs
    /\ articleScore(article) > -1

\* The first article, in document order, of the highest score among those
\* that qualify (0: none).
bestArticle ==
    LET best(quals, score) ==
            IF quals = {} THEN 0
            ELSE CHOOSE a \in quals :
                     \A b \in quals : \/ score[b] < score[a]
                                      \/ (score[b] = score[a] /\ a <= b)
    IN  best({a \in Elements : tagOf(a) = "article" /\ articleQualifies(a)},
             [a \in Elements |-> IF tagOf(a) = "article" THEN articleScore(a) ELSE 0])

\* [doc.querySelector('main'), doc.body].filter(Boolean), and the first of
\* them with the longest rendered text.
bestLandmark ==
    LET mains == documentQueryAll({"main"})
        candidates == (IF mains = <<>> THEN <<>> ELSE <<mains[1]>>) \o <<1>>
    IN  IF Len(candidates) = 2 /\ innerTextLength(candidates[2]) > innerTextLength(candidates[1])
        THEN candidates[2]
        ELSE candidates[1]

selectedBySelector ==
    IF opts.selector = "" THEN <<>> ELSE documentQueryAll({opts.selector})

selectRoots ==
    LET pick(selected, article) ==
            IF selected # <<>> THEN selected
            ELSE IF article # 0 THEN <<article>>
            ELSE <<bestLandmark>>
    IN  pick(selectedBySelector, bestArticle)

\* maxLineLength after root selection: an article root widens a finite limit.
selectMaxLineLength ==
    IF selectedBySelector = <<>> /\ bestArticle # 0
       /\ IsFinite(initialMaxLineLength) /\ initialMaxLineLength < ArticleLineLength
    THEN ArticleLineLength
    ELSE initialMaxLineLength

selectShellRoots(rs) ==
    IF ~includeShell THEN <<>>
    ELSE LET all == documentQueryAll({"header", "nav", "aside"})
             outside(node) == ~\E i \in 1..Len(rs) : contains(rs[i], node)
         IN  SelectSeq(all, outside)

rootSet == Range(roots)

shellRootSet == Range(shellRoots)

(***************************************************************************)
(* Helpers of the walker (readable.ts 258-422)                             *)
(***************************************************************************)

\* The pass a line is appended in, for the history.
Origin(el, kind) == [pass |-> pc, el |-> el, kind |-> kind]

emitHiddenHeading(c, el) ==
    IF textContent(el) = <<>> THEN c
    ELSE IF Len(children(el)) > 2 THEN c
    ELSE LET text == cleanText(textContent(el))
         IN  IF text = <<>> \/ Len(text) > 60 THEN c
             ELSE Emit(c, <<"#", "#", "#", " ">> \o text, NoRef, Origin(el, "hidden"))

shouldSkip(el) ==
    IF includeFooter THEN FALSE
    ELSE IF el \in rootSet THEN FALSE
    ELSE IF el \in shellRootSet THEN FALSE
    ELSE \/ closestIn(el, {"footer"})
         \/ (walkMode = "main" /\ closestIn(el, {"header", "nav", "aside"}))
         \/ (walkMode = "shell" /\ closestIn(el, {"main", "article"}))

getLinkRef(c, el) ==
    IF ~linksEnabled THEN [c |-> c, ref |-> NoRef]
    ELSE LET under == anchorsUnder(el)
             anchor == IF tagOf(el) = "a" THEN el
                       ELSE IF under = <<>> THEN 0 ELSE under[1]
         IN  IF anchor = 0 THEN [c |-> c, ref |-> NoRef]
             ELSE IF D[anchor].href = <<>> THEN [c |-> c, ref |-> NoRef]
             ELSE registerLink(c, D[anchor].href)

\* collectInlineText(el): the context after it (it registers the links of the
\* anchors it meets) and the text it returns.
RECURSIVE collectInlineText(_, _)
RECURSIVE collectInlineKids(_, _, _, _)
collectInlineKids(c, el, i, parts) ==
    IF i > Len(children(el)) THEN [c |-> c, text |-> join(parts, <<" ">>)]
    ELSE LET child == children(el)[i]
             tag == tagOf(child)
         IN  IF tag \in SKIP_TAGS THEN collectInlineKids(c, el, i + 1, parts)
             ELSE IF tag = "a"
             THEN LET text == cleanText(textContent(child))
                  IN  IF text = <<>> THEN collectInlineKids(c, el, i + 1, parts)
                      ELSE LET r == getLinkRef(c, child)
                               part == IF r.ref # NoRef
                                       THEN <<"[">> \o text \o <<"]">> \o r.ref
                                       ELSE text
                           IN  collectInlineKids(r.c, el, i + 1, Append(parts, part))
             ELSE IF tag \in HEADING_TAGS \cup HEADING_LIKE_TAGS
             THEN collectInlineKids(c, el, i + 1, parts)
             ELSE IF tag \in BLOCK_TEXT_TAGS \cup {"ul", "ol"}
             THEN collectInlineKids(c, el, i + 1, parts)
             ELSE IF isHidden(child) THEN collectInlineKids(c, el, i + 1, parts)
             ELSE LET r == collectInlineText(c, child)
                  IN  collectInlineKids(r.c, el, i + 1, Append(parts, r.text))

collectInlineText(c, el) ==
    collectInlineKids(c, el, 1, IF D[el].text # <<>> THEN <<D[el].text>> ELSE <<>>)

extractInlineText(c, el) ==
    LET r == collectInlineText(c, el) IN [c |-> r.c, text |-> cleanText(r.text)]

\* The children of el that collectInlineText calls itself on (line 356).
inlineChildren(el) ==
    LET recursed(child) ==
            /\ tagOf(child) \notin SKIP_TAGS \cup {"a", "ul", "ol"}
            /\ tagOf(child) \notin HEADING_TAGS \cup HEADING_LIKE_TAGS \cup BLOCK_TEXT_TAGS
            /\ ~isHidden(child)
    IN  SelectSeq(children(el), recursed)

\* How many calls of collectInlineText are nested in collectInlineText(el),
\* that call included.
RECURSIVE collectInlineDepth(_)
collectInlineDepth(el) ==
    LET deepest(below) ==
            IF below = {} THEN 0 ELSE CHOOSE d \in below : \A e \in below : e <= d
    IN  1 + deepest({collectInlineDepth(q) : q \in Range(inlineChildren(el))})

\* Drops each part that equals, ignoring case, the part kept before it.
RECURSIVE dropRepeats(_, _)
dropRepeats(parts, unique) ==
    IF parts = <<>> THEN unique
    ELSE IF unique # <<>> /\ toLowerCase(unique[Len(unique)]) = toLowerCase(Head(parts))
         THEN dropRepeats(Tail(parts), unique)
         ELSE dropRepeats(Tail(parts), Append(unique, Head(parts)))

compactText(c, el) ==
    LET raw == innerTextLines(el)
        cleanedParts == [i \in 1..Len(raw) |-> cleanText(raw[i])]
        nonEmpty(t) == t # <<>>
        unique == dropRepeats(SelectSeq(cleanedParts, nonEmpty), <<>>)
    IN  trimLine(normalizeBullets(join(unique, <<" ", "BULLET", " ">>)), c.maxLineLength)

isStandaloneInline(el) ==
    LET parent == parentElement(el)
    IN  IF parent = 0 THEN TRUE
        ELSE LET tag == tagOf(parent)
             IN  ~ \/ tag \in HEADING_TAGS \cup HEADING_LIKE_TAGS
                   \/ tag \in BLOCK_TEXT_TAGS
                   \/ tag \in {"li", "button", "a", "label"}

\* isCard: the article tag (the documents carry no role or data-testid).
isCard(el) == tagOf(el) = "article"

hasBlockChildren(el) ==
    \E i \in 1..Len(children(el)) :
        tagOf(children(el)[i]) \in
            HEADING_TAGS \cup HEADING_LIKE_TAGS \cup BLOCK_TEXT_TAGS
                \cup {"ul", "ol", "li", "article"}

shouldSummarizeCard(el) ==
    /\ isCard(el)
    /\ el \notin rootSet
    /\ ~hasBlockChildren(el)
    /\ Len(cleanText(join(innerTextLines(el), <<"\n">>))) <= lineLimit * 2

getHeadingLevel(el, tag) ==
    IF tag \in HEADING_TAGS
    THEN CHOOSE n \in 1..6 : tag = <<"h1", "h2", "h3", "h4", "h5", "h6">>[n]
    ELSE 3

(***************************************************************************)
(* Filter groups (readable.ts 437-603)                                     *)
(***************************************************************************)

IsDigit(ch) == \E i \in 1..10 : DigitChars[i] = ch

\* (text.match(/\d+/g) || []).length: the number of runs of digits.
digitGroups(text) ==
    Cardinality({i \in 1..Len(text) : IsDigit(text[i]) /\ (i = 1 \/ ~IsDigit(text[i - 1]))})

\* text.split(/\s+/).length
tokenCount(text) ==
    1 + Cardinality({i \in 1..Len(text) : IsSpace(text[i]) /\ (i = 1 \/ ~IsSpace(text[i - 1]))})

\* /^reset\b/i
startsWithReset(text) ==
    /\ startsWith(toLowerCase(text), <<"r", "e", "s", "e", "t">>)
    /\ (Len(text) = 5 \/ ~IsWordChar(text[6]))

isLabelCandidate(text) ==
    IF text = <<>> THEN FALSE
    ELSE IF /\ ~\E i \in 1..Len(text) : text[i] \in LowerLetters \cup UpperLetters
            /\ \E i \in 1..Len(text) : IsDigit(text[i])
         THEN FALSE
    ELSE IF digitGroups(text) >= 3 THEN FALSE
    ELSE IF digitGroups(text) >= 2 /\ tokenCount(text) >= 3 THEN FALSE
    ELSE IF text[1] \in {"<", ">"} /\ digitGroups(text) >= 1 THEN FALSE
    ELSE IF startsWithReset(text) THEN FALSE
    ELSE TRUE

isInteractive(node) == tagOf(node) \in {"button", "a"}

isActiveChip(el) == D[el].active

\* The first loop of findGroupLabel: a heading-like or label-like child of
\* plausible text.  It is the one loop that can meet an anchor, so the one
\* that can register a link.  label <<>> stands for no label yet.
RECURSIVE labelFromLabelTags(_, _, _)
labelFromLabelTags(c, el, i) ==
    IF i > Len(children(el)) THEN [c |-> c, label |-> <<>>]
    ELSE LET child == children(el)[i]
         IN  IF tagOf(child) \in HEADING_TAGS \cup HEADING_LIKE_TAGS
                                  \cup {"label", "strong", "span", "p"}
             THEN LET r == extractInlineText(c, child)
                  IN  IF r.text # <<>> /\ Len(r.text) <= 40 /\ isLabelCandidate(r.text)
                      THEN [c |-> r.c, label |-> r.text]
                      ELSE labelFromLabelTags(r.c, el, i + 1)
             ELSE labelFromLabelTags(c, el, i + 1)

\* The later loops read only nodes that are no anchor and hold none, so
\* extractInlineText registers nothing there.
plainLabel(c, node) ==
    IF isInteractive(node) \/ hasDescendant(node, {"button", "a"}) THEN <<>>
    ELSE LET text == extractInlineText(c, node).text
         IN  IF text # <<>> /\ Len(text) <= 30 /\ isLabelCandidate(text) THEN text ELSE <<>>

\* The first node of nodes with a plain label, as its label (<<>>: none).
firstPlainLabel(c, nodes) ==
    LET firstOf(labels) ==
            LET hits == {i \in 1..Len(labels) : labels[i] # <<>>}
            IN  IF hits = {} THEN <<>>
                ELSE labels[CHOOSE i \in hits : \A j \in hits : i <= j]
    IN  firstOf([i \in 1..Len(nodes) |-> plainLabel(c, nodes[i])])

\* el.previousElementSibling (0: none)
previousElementSibling(el) ==
    LET parent == parentElement(el)
    IN  IF parent = 0 THEN 0
        ELSE LET sibs == children(parent)
                 at == CHOOSE i \in 1..Len(sibs) : sibs[i] = el
             IN  IF at = 1 THEN 0 ELSE sibs[at - 1]

findGroupLabel(c, el) ==
    LET pick(c1, label) == [c |-> c1, label |-> label]
        fromPrev(c1, prev) ==
            pick(c1, IF prev = 0 THEN <<>> ELSE plainLabel(c1, prev))
        fromDescendants(c1, label) ==
            IF label # <<>> THEN pick(c1, label)
            ELSE fromPrev(c1, previousElementSibling(el))
        fromChildren(c1, label) ==
            IF label # <<>> THEN pick(c1, label)
            ELSE fromDescendants(c1, firstPlainLabel(c1, InOrder(Descendants(el))))
        fromLabelTags(first) ==
            IF first.label # <<>> THEN first
            ELSE fromChildren(first.c, firstPlainLabel(first.c, children(el)))
    IN  fromLabelTags(labelFromLabelTags(c, el, 1))

\* nodes.map(extractInlineText).filter(Boolean), with the context threaded.
RECURSIVE extractAll(_, _, _, _)
extractAll(c, nodes, i, out) ==
    IF i > Len(nodes) THEN [c |-> c, items |-> out]
    ELSE LET r == extractInlineText(c, nodes[i])
         IN  extractAll(r.c, nodes, i + 1, IF r.text # <<>> THEN Append(out, r.text) ELSE out)

NoGroup(c) == [c |-> c, found |-> FALSE, label |-> <<>>, items |-> <<>>, activeItems |-> <<>>]

extractFilterGroup(c, el) ==
    LET visible(node) == ~isHidden(node)
        short(item) == Len(item) <= 40
        group(lab, its, act) ==
            [c |-> act.c, found |-> TRUE, label |-> lab.label,
             items |-> its.items, activeItems |-> act.items]
        withItems(lab, chipNodes, its) ==
            IF Len(its.items) < 2 THEN NoGroup(its.c)
            ELSE IF 10 * Len(SelectSeq(its.items, short)) < 7 * Len(its.items)
                 THEN NoGroup(its.c)
            ELSE group(lab, its,
                       extractAll(its.c, SelectSeq(chipNodes, isActiveChip), 1, <<>>))
        withChips(lab, chipNodes) ==
            IF lab.label = <<>> THEN NoGroup(lab.c)
            ELSE IF Len(chipNodes) < 3 THEN NoGroup(lab.c)
            ELSE withItems(lab, chipNodes, extractAll(lab.c, chipNodes, 1, <<>>))
    IN  IF tagOf(el) \notin CONTAINER_TAGS THEN NoGroup(c)
        ELSE IF el \in rootSet THEN NoGroup(c)
        ELSE IF hasDescendant(el, {"h1"}) THEN NoGroup(c)
        ELSE IF hasDescendant(el, {"article", "table", "ul", "ol"}) THEN NoGroup(c)
        ELSE withChips(findGroupLabel(c, el),
                       SelectSeq(querySelectorAll(el, {"button", "a"}), visible))

\* Number(digits)
RECURSIVE ParseDigits(_)
ParseDigits(ds) ==
    IF ds = <<>> THEN 0
    ELSE 10 * ParseDigits(SubSeq(ds, 1, Len(ds) - 1))
             + ((CHOOSE i \in 1..10 : DigitChars[i] = ds[Len(ds)]) - 1)

\* item.match(/^\+\s*(\d+)$/)
isPlusCount(item) ==
    /\ Len(item) >= 2
    /\ item[1] = "+"
    /\ SkipWS(item, 2) <= Len(item)
    /\ \A i \in SkipWS(item, 2)..Len(item) : IsDigit(item[i])

plusCount(item) == ParseDigits(SubSeq(item, SkipWS(item, 2), Len(item)))

RECURSIVE sumPlusCounts(_)
sumPlusCounts(items) ==
    IF items = <<>> THEN 0
    ELSE (IF isPlusCount(Head(items)) THEN plusCount(Head(items)) ELSE 0)
             + sumPlusCounts(Tail(items))

\* The items whose lower-case form was not seen before, in order.
RECURSIVE uniqueByLowerCase(_, _)
uniqueByLowerCase(items, out) ==
    IF items = <<>> THEN out
    ELSE IF \E i \in 1..Len(out) : toLowerCase(out[i]) = toLowerCase(Head(items))
         THEN uniqueByLowerCase(Tail(items), out)
         ELSE uniqueByLowerCase(Tail(items), Append(out, Head(items)))

formatFilterGroup(group) ==
    LET notReset(item) == ~startsWithReset(item)
        notPlus(item) == ~isPlusCount(item)
        more(count) ==
            IF count > 0
            THEN <<" ", "(", "+">> \o Digits(count) \o <<" ", "m", "o", "r", "e", ")">>
            ELSE <<>>
        format(uniqueItems, selected, extraCount) ==
            IF selected = <<>> THEN <<>>
            ELSE group.label \o <<":", " ">> \o join(selected, <<",", " ">>)
                     \o more(Max(Len(uniqueItems) - Len(selected), 0) + extraCount)
        ordered(uniqueItems, activeUnique) ==
            LET notActive(item) ==
                    ~\E i \in 1..Len(activeUnique) :
                        toLowerCase(activeUnique[i]) = toLowerCase(item)
            IN  activeUnique \o SelectSeq(uniqueItems, notActive)
        active(uniqueItems) ==
            LET isSeen(item) ==
                    \E i \in 1..Len(uniqueItems) :
                        toLowerCase(uniqueItems[i]) = toLowerCase(item)
            IN  SelectSeq(group.activeItems, isSeen)
        select(uniqueItems, extraCount) ==
            format(uniqueItems,
                   sliceTo(IF filterMode = "compact"
                           THEN ordered(uniqueItems, active(uniqueItems))
                           ELSE uniqueItems,
                           maxListItems),
                   extraCount)
        count(cleanedItems) ==
            select(uniqueByLowerCase(SelectSeq(cleanedItems, notPlus), <<>>),
                   sumPlusCounts(cleanedItems))
    IN  count(SelectSeq(group.items, notReset))

(***************************************************************************)
(* The tree walker (readable.ts 605-763)                                   *)
(*                                                                         *)
(* The recursion is kept as a stack of frames.  A "walk" frame is a call   *)
(* walk(el, depth, listDepth) about to start; a "list", "nested" or "kids" *)
(* frame is a loop of handleList, of the li branch or of the final loop of *)
(* walk, about to run iteration i.                                         *)
(***************************************************************************)

Frame(k, el, i, depth, listDepth) ==
    [k |-> k, el |-> el, i |-> i, depth |-> depth, listDepth |-> listDepth]

\* The li children of a list, and the ul/ol children of an li.
listItems(el) ==
    LET isLi(q) == tagOf(q) = "li" IN SelectSeq(children(el), isLi)

nestedLists(el) ==
    LET isList(q) == tagOf(q) \in {"ul", "ol"} IN SelectSeq(children(el), isList)

listLimit(el) == Min(Len(listItems(el)), maxListItems)

Done(c) == [c |-> c, push |-> <<>>]

\* walk(el, depth, listDepth) up to its loops: the context after it and the
\* frames it leaves to run.  A call that gets past the early returns detects
\* a filter group (unless an earlier branch returns first), reads the inline
\* text where its branch does, resolves the link reference where its branch
\* does, and hands at most one line to addLine.  The branch taken is named by
\* kind: "heading", "quote", "media" (img), "item" (li), "filter", "card",
\* "block", "container" (the compact container), "control" (a standalone
\* button or anchor), "leaf" (no children, some text) or "kids" (the final
\* loop).  The figure and video branches are not modelled: no document here
\* holds such an element.
walk(c, el, depth, listDepth) ==
    LET tag == tagOf(el)
        bullet == Indent(listDepth) \o <<"-", " ">>
        isHeading == tag \in HEADING_TAGS \cup HEADING_LIKE_TAGS
        collapsing == tag \in CONTAINER_TAGS /\ el \notin rootSet /\ ~c.shellMode
        control == tag \in {"button", "a"} /\ isStandaloneInline(el)
        \* the branches decided before any inline text is read
        branch(found) ==
            IF isHeading THEN "heading"
            ELSE IF tag = "blockquote" THEN "quote"
            ELSE IF tag = "img" THEN "media"
            ELSE IF tag = "li" THEN "item"
            ELSE IF found /\ filterMode # "full" THEN "filter"
            ELSE IF shouldSummarizeCard(el) THEN "card"
            ELSE IF tag \in BLOCK_TEXT_TAGS THEN "block"
            ELSE "other"
        readsInline(b) ==
            \/ b \in {"heading", "quote", "item", "block"}
            \/ (b = "other" /\ (collapsing \/ control))
        kindOf(b, r) ==
            IF b # "other" THEN b
            ELSE IF /\ collapsing
                    /\ r.text # <<>>
                    /\ ~hasBlockChildren(el)
                    /\ Len(r.text) <= lineLimit
                    /\ Len(children(el)) <= 3
                 THEN "container"
            ELSE IF control THEN "control"
            ELSE IF children(el) = <<>> /\ cleanText(textContent(el)) # <<>> THEN "leaf"
            ELSE "kids"
        prefixOf(kind) ==
            IF kind = "heading"
            THEN Hashes(Min(Max(getHeadingLevel(el, tag), 1), 6)) \o <<" ">>
            ELSE IF kind = "quote" THEN <<">", " ">>
            ELSE IF kind = "media" THEN <<"-", " ">>
            ELSE IF kind \in {"item", "filter", "card", "control"} THEN bullet
            ELSE <<>>
        imageAlt(alt) == IF alt # <<>> THEN alt ELSE <<"I", "m", "a", "g", "e">>
        textOf(kind, g, r) ==
            IF kind \in {"heading", "quote", "block", "container", "control"} THEN r.text
            ELSE IF kind = "item" /\ r.text # <<>> THEN r.text
            ELSE IF kind \in {"item", "card"} THEN compactText(r.c, el)
            ELSE IF kind = "filter" THEN formatFilterGroup(g)
            ELSE IF kind = "media" THEN imageAlt(cleanText(D[el].alt))
            ELSE IF kind = "leaf" THEN cleanText(textContent(el))
            ELSE <<>>
        linkOf(kind, r) ==
            IF kind \in {"item", "card", "control", "leaf"} THEN getLinkRef(r.c, el)
            ELSE IF kind = "media" /\ D[el].src # <<>> THEN registerLink(r.c, D[el].src)
            ELSE [c |-> r.c, ref |-> NoRef]
        pushOf(kind) ==
            IF kind = "item" THEN <<Frame("nested", el, 1, depth, listDepth)>>
            ELSE IF kind = "kids" THEN <<Frame("kids", el, 1, depth, listDepth)>>
            ELSE <<>>
        line(kind, l, text) ==
            [c |-> IF text # <<>>
                   THEN Emit(l.c, prefixOf(kind) \o text, l.ref, Origin(el, kind))
                   ELSE l.c,
             push |-> pushOf(kind)]
        classified(kind, g, r) == line(kind, linkOf(kind, r), textOf(kind, g, r))
        grouped(g, b) ==
            LET inlined(r) == classified(kindOf(b, r), g, r)
            IN  inlined(IF readsInline(b) THEN extractInlineText(g.c, el)
                        ELSE [c |-> g.c, text |-> <<>>])
        detected(g) == grouped(g, branch(g.found))
    IN
    IF c.truncated THEN Done(c)
    ELSE IF depth > maxDepth THEN Done(c)
    ELSE IF tag \in SKIP_TAGS THEN Done(c)
    ELSE IF shouldSkip(el) THEN Done(c)
    ELSE IF isHidden(el) THEN Done(emitHiddenHeading(c, el))
    ELSE IF tag \in {"ul", "ol"}
    THEN [c |-> c, push |-> <<Frame("list", el, 1, depth, listDepth)>>]
    ELSE detected(IF isHeading \/ tag \in {"blockquote", "img", "li"} THEN NoGroup(c)
                  ELSE extractFilterGroup(c, el))

\* "- … (N more)" at the list's indentation.
moreLine(listDepth, remaining) ==
    Indent(listDepth) \o <<"-", " ", "ELLIPSIS", " ", "(">> \o Digits(remaining)
        \o <<" ", "m", "o", "r", "e", ")">>

Walking == pc \in {"shell", "main"} /\ stack # <<>>

Top == Head(stack)

\* walk(el, depth, listDepth) is entered.
WalkEnter ==
    /\ Walking
    /\ Top.k = "walk"
    /\ \E r \in {walk(Ctx, Top.el, Top.depth, Top.listDepth)} :
           /\ SetCtx(r.c)
           /\ stack' = r.push \o Tail(stack)
    /\ UNCHANGED <<opts, doc, pc, roots, shellRoots, saved, iter, walkMode>>

\* handleList: the loop over the first limit items (left as soon as truncated
\* is set), then the summary line.
ListStep ==
    /\ Walking
    /\ Top.k = "list"
    /\ LET items == listItems(Top.el)
           limit == listLimit(Top.el)
       IN  IF Top.i > 1 /\ truncated
           THEN /\ stack' = Tail(stack)
                /\ UNCHANGED ctxVars
           ELSE IF Top.i <= limit
           THEN /\ stack' = <<Frame("walk", items[Top.i], 0, Top.depth + 1, Top.listDepth + 1),
                              [Top EXCEPT !.i = @ + 1]>> \o Tail(stack)
                /\ UNCHANGED ctxVars
           ELSE /\ stack' = Tail(stack)
                /\ IF Len(items) > limit
                   THEN SetCtx(Emit(Ctx, moreLine(Top.listDepth, Len(items) - limit), NoRef,
                                    Origin(Top.el, "summary")))
                   ELSE UNCHANGED ctxVars
    /\ UNCHANGED <<opts, doc, pc, roots, shellRoots, saved, iter, walkMode>>

\* The li branch: walk into each nested list.
NestedStep ==
    /\ Walking
    /\ Top.k = "nested"
    /\ LET lists == nestedLists(Top.el)
       IN  IF Top.i <= Len(lists)
           THEN stack' = <<Frame("walk", lists[Top.i], 0, Top.depth + 1, Top.listDepth + 1),
                           [Top EXCEPT !.i = @ + 1]>> \o Tail(stack)
           ELSE stack' = Tail(stack)
    /\ UNCHANGED ctxVars
    /\ UNCHANGED <<opts, doc, pc, roots, shellRoots, saved, iter, walkMode>>

\* The final loop of walk over the children, left as soon as truncated is set.
KidsStep ==
    /\ Walking
    /\ Top.k = "kids"
    /\ LET kids == children(Top.el)
       IN  IF (Top.i > 1 /\ truncated) \/ Top.i > Len(kids)
           THEN stack' = Tail(stack)
           ELSE stack' = <<Frame("walk", kids[Top.i], 0, Top.depth + 1, Top.listDepth),
                           [Top EXCEPT !.i = @ + 1]>> \o Tail(stack)
    /\ UNCHANGED ctxVars
    /\ UNCHANGED <<opts, doc, pc, roots, shellRoots, saved, iter, walkMode>>

(***************************************************************************)
(* The passes of the callback (readable.ts 765-880)                        *)
(***************************************************************************)

LowYieldLines == 8
LowYieldChars == 400

NoOptions ==
    [selector |-> "", maxDepth |-> <<>>, maxItems |-> <<>>, maxListItems |-> <<>>,
     maxLineLength |-> <<>>, filterMode |-> "", links |-> <<>>, dedupe |-> <<>>,
     dedupeWindow |-> <<>>, includeFooter |-> <<>>, includeShell |-> <<>>]

Iter(r, k, stage) == [r |-> r, k |-> k, stage |-> stage]

\* The options a call is made with: at most MaxOptionsSet of them are given.
MaxOptionsSet == 2

OptionChoices ==
    [selector : {"", "main"}, maxDepth : {<<>>, <<2>>}, maxItems : {<<>>, <<2>>, <<5>>},
     maxListItems : {<<>>, <<2>>}, maxLineLength : {<<>>, <<20>>, <<50>>},
     filterMode : {"", "compact", "full"}, links : {<<>>, <<FALSE>>}, dedupe : {<<>>, <<FALSE>>},
     dedupeWindow : {<<>>}, includeFooter : {<<>>, <<TRUE>>},
     includeShell : {<<>>, <<TRUE>>}]

OptionsSet(o) ==
    Cardinality({f \in DOMAIN NoOptions : o[f] # NoOptions[f]})

Options == {o \in OptionChoices : OptionsSet(o) <= MaxOptionsSet}

Init ==
    /\ opts \in Options
    /\ \E d \in 1..Len(Docs) : doc = Document(d)
    /\ pc = "select"
    /\ roots = <<>>
    /\ shellRoots = <<>>
    /\ stack = <<>>
    /\ saved = <<>>
    /\ iter = Iter(1, 1, "")
    /\ walkMode = "main"
    /\ SetCtxInit

\* Lines 53-116: the roots, the widened line length, the shell roots.
SelectRoots ==
    /\ pc = "select"
    /\ \E rs \in {selectRoots} :
           /\ roots' = rs
           /\ \E srs \in {selectShellRoots(rs)} :
                  /\ shellRoots' = srs
                  /\ pc' = IF includeShell /\ srs # <<>> THEN "withShell" ELSE "mainBegin"
    /\ maxLineLength' = selectMaxLineLength
    /\ UNCHANGED <<opts, doc, stack, saved, iter, walkMode, shellMode, shellRemaining,
                   itemCount, truncated, lines, fingerprintWindow, fingerprintSet,
                   linkMap, linkList, linkCounter, prov>>

\* withShellMode(60, fn), up to the call of fn.
ShellBegin ==
    /\ pc = "withShell"
    /\ saved' = <<shellMode, shellRemaining, walkMode>>
    /\ shellMode' = TRUE
    /\ shellRemaining' = ShellItemLimit
    /\ walkMode' = "shell"
    /\ pc' = "shell"
    /\ iter' = Iter(1, 1, "")
    /\ UNCHANGED <<opts, doc, roots, shellRoots, stack, maxLineLength, itemCount,
                   truncated, lines, fingerprintWindow, fingerprintSet, linkMap,
                   linkList, linkCounter, prov>>

\* fn: the next shell root is walked, unless truncated.
ShellRoot ==
    /\ pc = "shell"
    /\ stack = <<>>
    /\ iter.r <= Len(shellRoots)
    /\ ~truncated
    /\ stack' = <<Frame("walk", shellRoots[iter.r], 0, 0, 0)>>
    /\ iter' = [iter EXCEPT !.r = @ + 1]
    /\ UNCHANGED <<opts, doc, pc, roots, shellRoots, saved, walkMode>>
    /\ UNCHANGED ctxVars

\* withShellMode after fn: the three values are restored.
ShellEnd ==
    /\ pc = "shell"
    /\ stack = <<>>
    /\ iter.r > Len(shellRoots) \/ truncated
    /\ shellMode' = saved[1]
    /\ shellRemaining' = saved[2]
    /\ walkMode' = saved[3]
    /\ saved' = <<>>
    /\ pc' = "mainBegin"
    /\ UNCHANGED <<opts, doc, roots, shellRoots, stack, iter, maxLineLength, itemCount,
                   truncated, lines, fingerprintWindow, fingerprintSet, linkMap,
                   linkList, linkCounter, prov>>

\* Line 774.
MainBegin ==
    /\ pc = "mainBegin"
    /\ walkMode' = "main"
    /\ pc' = "main"
    /\ iter' = Iter(1, 1, "")
    /\ UNCHANGED <<opts, doc, roots, shellRoots, stack, saved>>
    /\ UNCHANGED ctxVars

\* The next root is walked.
MainRoot ==
    /\ pc = "main"
    /\ stack = <<>>
    /\ iter.r <= Len(roots)
    /\ stack' = <<Frame("walk", roots[iter.r], 0, 0, 0)>>
    /\ iter' = [iter EXCEPT !.r = @ + 1]
    /\ UNCHANGED <<opts, doc, pc, roots, shellRoots, saved, walkMode>>
    /\ UNCHANGED ctxVars

\* registerLink over hrefs, in order; with a limit, only while fewer than
\* limit links were added since base.
RECURSIVE registerAll(_, _, _, _)
registerAll(c, hrefs, base, limit) ==
    IF hrefs = <<>> THEN c
    ELSE IF Len(c.linkList) - base >= limit THEN c
    ELSE registerAll(registerLink(c, Head(hrefs)).c, Tail(hrefs), base, limit)

\* The href of every a[href] under each of rs, in order.
RECURSIVE anchorHrefs(_)
anchorHrefs(rs) ==
    IF rs = <<>> THEN <<>>
    ELSE LET as == anchorsUnder(Head(rs))
         IN  [i \in 1..Len(as) |-> D[as[i]].href] \o anchorHrefs(Tail(rs))

\* Lines 779-800.
registerAnchors(c) ==
    LET c1 == IF linksEnabled /\ roots # <<>>
              THEN registerAll(c, anchorHrefs(roots), 0, Infinity)
              ELSE c
    IN  IF linksEnabled /\ includeShell /\ shellRoots # <<>>
        THEN registerAll(c1, anchorHrefs(shellRoots), Len(c1.linkList), ShellLinkLimit)
        ELSE c1

RECURSIVE sumLengths(_)
sumLengths(ls) == IF ls = <<>> THEN 0 ELSE Len(Head(ls)) + sumLengths(Tail(ls))

\* Line 803.
lowYield(ls) == roots # <<>> /\ (Len(ls) < LowYieldLines \/ sumLengths(ls) < LowYieldChars)

\* After the main pass: the anchors are registered and the yield is judged.
RegisterAnchors ==
    /\ pc = "main"
    /\ stack = <<>>
    /\ iter.r > Len(roots)
    /\ SetCtx(registerAnchors(Ctx))
    /\ pc' = IF lowYield(lines) THEN "fallback" ELSE "links"
    /\ iter' = Iter(1, 1, "nodes")
    /\ UNCHANGED <<opts, doc, roots, shellRoots, stack, saved, walkMode>>

\* addNodeLine of the fallback sweep.
addNodeLine(c, node) ==
    LET tag == tagOf(node)
        prefix ==
            IF tag = "blockquote" THEN <<">", " ">>
            ELSE IF tag \in {"li", "figcaption"} THEN <<"-", " ">>
            ELSE IF tag = "p" THEN <<>>
            ELSE Hashes(Min(Max(getHeadingLevel(node, tag), 2), 6)) \o <<" ">>
        kind ==
            IF tag = "blockquote" THEN "quote"
            ELSE IF tag = "li" THEN "item"
            ELSE IF tag = "p" THEN "block"
            ELSE IF tag = "figcaption" THEN "caption"
            ELSE "heading"
        emitText(r) ==
            IF r.text # <<>> THEN Emit(r.c, prefix \o r.text, NoRef, Origin(node, kind))
            ELSE r.c
    IN  IF tag \in {"blockquote", "li", "p", "figcaption"} \cup HEADING_TAGS
        THEN emitText(extractInlineText(c, node))
        ELSE c

fallbackNodes(root) ==
    querySelectorAll(root, {"h2", "h3", "h4", "p", "blockquote", "figcaption", "li"})

\* The sweep over the nodes of root iter.r, left as soon as truncated is set.
FallbackNode ==
    /\ pc = "fallback"
    /\ iter.stage = "nodes"
    /\ \E nodes \in {fallbackNodes(roots[iter.r])} :
       \E c \in {IF iter.k <= Len(nodes) THEN addNodeLine(Ctx, nodes[iter.k]) ELSE Ctx} :
           /\ SetCtx(c)
           /\ iter' = IF c.truncated \/ iter.k >= Len(nodes)
                      THEN Iter(iter.r, 1, "segments")
                      ELSE [iter EXCEPT !.k = @ + 1]
    /\ UNCHANGED <<opts, doc, pc, roots, shellRoots, stack, saved, walkMode>>

\* for (const segment of segments) if (words >= 4) addLine(segment)
RECURSIVE addSegments(_, _, _)
addSegments(c, segments, root) ==
    IF segments = <<>> THEN c
    ELSE LET segment == cleanText(Head(segments))
             c1 == IF segment # <<>> /\ tokenCount(segment) >= 4
                   THEN Emit(c, segment, NoRef, Origin(root, "segment"))
                   ELSE c
         IN  addSegments(c1, Tail(segments), root)

\* Lines 847-859 for root iter.r, then on to the next root or to the link table.
FallbackSegments ==
    /\ pc = "fallback"
    /\ iter.stage = "segments"
    /\ IF ~truncated /\ Len(lines) < LowYieldLines
       THEN SetCtx(addSegments(Ctx, innerTextLines(roots[iter.r]), roots[iter.r]))
       ELSE UNCHANGED ctxVars
    /\ IF iter.r < Len(roots)
       THEN iter' = Iter(iter.r + 1, 1, "nodes") /\ pc' = pc
       ELSE iter' = Iter(1, 1, "") /\ pc' = "links"
    /\ UNCHANGED <<opts, doc, roots, shellRoots, stack, saved, walkMode>>

LinksHeading == <<"#", "#", "#", " ", "L", "i", "n", "k", "s">>

linkTableLine(link) == <<"@">> \o link.ref \o <<" ">> \o link.href

\* Lines 863-864: the heading of the link table, if there is to be one.
LinkTableBegin ==
    /\ pc = "links"
    /\ IF linksEnabled /\ linkList # <<>> /\ ~truncated
       THEN /\ SetCtx(Emit(Ctx, LinksHeading, NoRef, Origin(0, "linkhead")))
            /\ pc' = "linkEntries"
       ELSE /\ UNCHANGED ctxVars
            /\ pc' = "done"
    /\ iter' = Iter(1, 1, "")
    /\ UNCHANGED <<opts, doc, roots, shellRoots, stack, saved, walkMode>>

\* Lines 865-868: one entry of the table; the loop is left once truncated.
LinkTableEntry ==
    /\ pc = "linkEntries"
    /\ \E c \in {Emit(Ctx, linkTableLine(linkList[iter.k]), NoRef, Origin(0, "linkentry"))} :
           /\ SetCtx(c)
           /\ IF c.truncated \/ iter.k >= Len(linkList)
              THEN pc' = "done" /\ iter' = iter
              ELSE pc' = pc /\ iter' = [iter EXCEPT !.k = @ + 1]
    /\ UNCHANGED <<opts, doc, roots, shellRoots, stack, saved, walkMode>>

Next ==
    \/ SelectRoots
    \/ ShellBegin
    \/ ShellRoot
    \/ ShellEnd
    \/ MainBegin
    \/ MainRoot
    \/ WalkEnter
    \/ ListStep
    \/ NestedStep
    \/ KidsStep
    \/ RegisterAnchors
    \/ FallbackNode
    \/ FallbackSegments
    \/ LinkTableBegin
    \/ LinkTableEntry

Spec == Init /\ [][Next]_vars

(***************************************************************************)
(* The emission engine on its own: any sequence of candidate lines         *)
(***************************************************************************)

MaxEngineLines == 13
MaxSpecialLines == 4

EngineOptions ==
    {[NoOptions EXCEPT !.dedupeWindow = <<0>>],
     [NoOptions EXCEPT !.dedupeWindow = <<0>>, !.maxItems = <<2>>],
     [NoOptions EXCEPT !.dedupe = <<FALSE>>, !.maxItems = <<3>>]}

\* "# b": a heading, which no line below shares a fingerprint with.
FillerLine == <<"#", " ", "b">>

\* "# a" (a heading), "·# a" (no heading, the fingerprint of "# a"), "x y" and
\* " X  y " (no headings, one fingerprint).
SpecialLines ==
    {<<"#", " ", "a">>, <<"MIDDOT", "#", " ", "a">>, <<"x", " ", "y">>,
     <<" ", "X", " ", " ", "y", " ">>}

EngineOrigin(kind) == [pass |-> "engine", el |-> 0, kind |-> kind]

SpecialCount == Cardinality({i \in 1..Len(prov) : prov[i].kind = "special"})

EngineInit ==
    /\ opts \in EngineOptions
    /\ doc = <<>>
    /\ pc = "engine"
    /\ roots = <<>>
    /\ shellRoots = <<>>
    /\ stack = <<>>
    /\ saved = <<>>
    /\ iter = Iter(1, 1, "")
    /\ walkMode = "main"
    /\ SetCtxInit

OfferFiller ==
    /\ pc = "engine"
    /\ Len(lines) < MaxEngineLines
    /\ SetCtx(Emit(Ctx, FillerLine, NoRef, EngineOrigin("filler")))
    /\ UNCHANGED ctlVars

OfferSpecial ==
    /\ pc = "engine"
    /\ Len(lines) < MaxEngineLines
    /\ SpecialCount < MaxSpecialLines
    /\ \E line \in SpecialLines :
           SetCtx(Emit(Ctx, line, NoRef, EngineOrigin("special")))
    /\ UNCHANGED ctlVars

EngineNext == OfferFiller \/ OfferSpecial

EngineSpec == EngineInit /\ [][EngineNext]_vars

(***************************************************************************)
(* The link registry on its own: any sequence of registerLink calls.  prov *)
(* records each call: the href handed in and the reference returned.       *)
(***************************************************************************)

MaxLinkCalls == 5

\* " u", "u", "v ", "w", "#f" and "": two spellings of one URL, two other
\* URLs, and two hrefs that registerLink rejects.
LinkUrls ==
    {<<" ", "u">>, <<"u">>, <<"v", " ">>, <<"w">>, <<"#", "f">>, <<>>}

LinkInit ==
    /\ opts = NoOptions
    /\ doc = <<>>
    /\ pc = "registry"
    /\ roots = <<>>
    /\ shellRoots = <<>>
    /\ stack = <<>>
    /\ saved = <<>>
    /\ iter = Iter(1, 1, "")
    /\ walkMode = "main"
    /\ SetCtxInit

RegisterCall ==
    /\ pc = "registry"
    /\ Len(prov) < MaxLinkCalls
    /\ \E href \in LinkUrls :
       \E r \in {registerLink(Ctx, href)} :
           SetCtx([r.c EXCEPT !.prov = Append(@, [href |-> href, ref |-> r.ref])])
    /\ UNCHANGED ctlVars

LinkNext == RegisterCall

LinkSpec == LinkInit /\ [][LinkNext]_vars

(***************************************************************************)
(* Properties                                                              *)
(***************************************************************************)

\* C1: the item count never exceeds maxItems (and counts the output lines),
\* and once truncated is set no step appends a line, be it a step of the
\* walk, of the fallback sweep or of the link table.
C1_BudgetIsRespected ==
    /\ [](itemCount <= maxItems /\ Len(lines) = itemCount)
    /\ [][truncated => lines' = lines]_vars

\* A call that used its whole budget, was truncated, and ended with links
\* registered and enabled: the fallback sweep and the link table came after.
C1_Witness ==
    /\ pc = "done"
    /\ truncated
    /\ itemCount = maxItems
    /\ linksEnabled
    /\ linkList # <<>>

\* The cleaned text of candidate line, as addLine computes it.
CleanedOf(line) == normalizeBullets(cleanText(line))

\* The candidate would be appended by addLine in the current state.
WouldAppend(line) == Len(addLine(Ctx, line, NoRef).lines) = Len(lines) + 1

\* The appended lines that are no headings and have the fingerprint f.
PlainWith(f) ==
    {i \in 1..Len(prov) :
        ~isHeadingLine(prov[i].cleaned) /\ fingerprintLine(prov[i].cleaned) = f}

\* C2: with dedupe enabled, two non-heading lines of one fingerprint are never
\* both appended within dedupeWindow appended lines of each other; and a
\* non-heading candidate whose earlier occurrences all lie more than
\* dedupeWindow appended lines back is appended, budget permitting.
C2_WindowSuppressesDuplicates ==
    dedupeEnabled =>
        /\ \A i, j \in 1..Len(prov) :
               (/\ i < j
                /\ j - i <= dedupeWindow
                /\ ~isHeadingLine(prov[i].cleaned)
                /\ ~isHeadingLine(prov[j].cleaned))
                   => fingerprintLine(prov[i].cleaned) # fingerprintLine(prov[j].cleaned)
        /\ \A line \in SpecialLines :
               (/\ ~isHeadingLine(CleanedOf(line))
                /\ PlainWith(fingerprintLine(CleanedOf(line))) # {}
                /\ \A i \in PlainWith(fingerprintLine(CleanedOf(line))) :
                       Len(prov) - i >= dedupeWindow
                /\ \A i \in 1..Len(prov) :
                       fingerprintLine(prov[i].cleaned) = fingerprintLine(CleanedOf(line))
                           => Len(prov) - i >= dedupeWindow
                /\ ~truncated
                /\ ~overBudget(Ctx))
                   => WouldAppend(line)

\* The first call of registerLink, in prov, whose trimmed href is h.
FirstCall(h) ==
    CHOOSE i \in 1..Len(prov) :
        /\ trim(prov[i].href) = h
        /\ \A j \in 1..(i - 1) : trim(prov[j].href) # h

\* C3: over any sequence of registerLink calls, equal trimmed URLs get equal
\* answers, distinct URLs never share a reference, the k-th entry of the link
\* list has reference Lk, no URL is listed twice, the entries stand in
\* first-seen order, and every reference returned is "@" and the reference
\* of the URL's entry.
C3_ReferencesAreStable ==
    /\ \A i, j \in 1..Len(prov) :
           trim(prov[i].href) = trim(prov[j].href) => prov[i].ref = prov[j].ref
    /\ \A i, j \in 1..Len(prov) :
           prov[i].ref # NoRef /\ prov[i].ref = prov[j].ref
               => trim(prov[i].href) = trim(prov[j].href)
    /\ linkCounter = Len(linkList)
    /\ \A k \in 1..Len(linkList) : linkList[k].ref = <<"L">> \o Digits(k)
    /\ \A k, m \in 1..Len(linkList) : linkList[k].href = linkList[m].href => k = m
    /\ \A k, m \in 1..Len(linkList) :
           k < m => FirstCall(linkList[k].href) < FirstCall(linkList[m].href)
    /\ \A i \in 1..Len(prov) :
           prov[i].ref # NoRef =>
               \E k \in 1..Len(linkList) :
                   /\ linkList[k].href = trim(prov[i].href)
                   /\ prov[i].ref = <<"@">> \o linkList[k].ref

\* Three URLs were registered in five calls, one of them under two spellings,
\* and one call was rejected.
C3_Witness ==
    /\ Len(prov) = MaxLinkCalls
    /\ Len(linkList) = 3
    /\ \E i, j \in 1..Len(prov) :
           prov[i].href # prov[j].href /\ prov[i].ref = prov[j].ref /\ prov[i].ref # NoRef
    /\ \E i \in 1..Len(prov) : prov[i].ref = NoRef

\* C4: once truncated is set, no step changes the output lines, the item
\* count, the fingerprint window and set, the link map or the link list.
C4_NothingChangesAfterTruncation ==
    [][truncated =>
          UNCHANGED <<lines, itemCount, fingerprintWindow, fingerprintSet,
                      linkMap, linkList>>]_vars

\* The root is the article that root selection picked by itself.
ArticleRoot == selectedBySelector = <<>> /\ roots # <<>> /\ tagOf(roots[1]) = "article"

\* The limit in force for a configured maxLineLength: at least 40, and at
\* least 360 under an article root; none when maxLineLength is not configured.
EffectiveLimit ==
    IF opts.maxLineLength = <<>> THEN Infinity
    ELSE IF ArticleRoot THEN Max(360, Max(40, opts.maxLineLength[1]))
    ELSE Max(40, opts.maxLineLength[1])

\* C5, under the limit in force: every output line is at most as long as the limit in force
\* (the configured L raised to 40, and to 360 under an article root picked
\* by root selection); a decorated line within that limit is appended as it
\* is; and with no maxLineLength configured no line is shortened.
C5_LinesKeepTheEffectiveLimit ==
    \A i \in 1..Len(lines) :
        /\ Len(lines[i]) <= EffectiveLimit
        /\ Len(prov[i].full) <= EffectiveLimit => lines[i] = prov[i].full
        /\ opts.maxLineLength = <<>> => lines[i] = prov[i].full

\* maxLineLength 20 was configured and a line was cut to 40 characters.
C5_Witness ==
    /\ opts.maxLineLength = <<20>>
    /\ \E i \in 1..Len(lines) : Len(lines[i]) = 40 /\ lines[i] # prov[i].full

\* C5, under the configured limit: with maxLineLength L configured every output line is at most
\* L characters long; with none configured no line is shortened.
C5_LinesKeepTheConfiguredLimit ==
    \A i \in 1..Len(lines) :
        /\ opts.maxLineLength # <<>> => Len(lines[i]) <= opts.maxLineLength[1]
        /\ opts.maxLineLength = <<>> => lines[i] = prov[i].full

\* handleList stands at the end of its loop over the list Top.el.
ListLoopDone == Walking /\ Top.k = "list" /\ Top.i > listLimit(Top.el) /\ ~truncated

\* C6: handleList walks at most maxListItems li children of a list; for a
\* list with more li children it appends, when it is done with them, exactly
\* one line, which states how many were left out; for any other list it
\* appends none.  (A list whose summary meets a used-up budget is left out.)
C6_OverflowIsSummarisedOnce ==
    /\ [](Walking /\ Top.k = "list" => Top.i <= Min(Len(listItems(Top.el)), maxListItems) + 1)
    /\ [][(ListLoopDone /\ Len(listItems(Top.el)) <= maxListItems)
             => lines' = lines]_vars
    /\ [][(/\ ListLoopDone
           /\ Len(listItems(Top.el)) > maxListItems
           /\ ~overBudget(Ctx)
           /\ ~shellExhausted(Ctx))
             => /\ Len(lines') = Len(lines) + 1
                /\ includes(lines'[Len(lines')],
                            <<"(">> \o Digits(Len(listItems(Top.el)) - maxListItems)
                                \o <<" ", "m", "o", "r", "e", ")">>)]_vars

\* The last line appended is a heading.
LastIsHeading == prov # <<>> /\ isHeadingLine(prov[Len(prov)].cleaned)

\* No heading among the candidates is dropped on account of its fingerprint:
\* while the budget lasts it is appended.
HeadingsAreNeverSuppressed ==
    \A line \in SpecialLines \cup {FillerLine} :
        (isHeadingLine(CleanedOf(line)) /\ ~truncated /\ ~overBudget(Ctx))
            => WouldAppend(line)

C8_LandmarksAreSkipped ==
    ~includeFooter =>
        \A i \in 1..Len(prov) :
            (prov[i].el # 0 /\ prov[i].kind # "segment") =>
                /\ ~closestIn(prov[i].el, {"footer"})
                /\ prov[i].pass \in {"main", "fallback"}
                       => ~closestIn(prov[i].el, {"header", "nav", "aside"})
                /\ prov[i].pass = "shell"
                       => ~closestIn(prov[i].el, {"main", "article"})

\* C10: a call that ends untruncated with links enabled and some link
\* registered ends its output with "### Links" and then, for each entry of
\* the link list in order, the line "@Lk url".
C10_LinkTableEndsTheOutput ==
    (pc = "done" /\ linksEnabled /\ linkList # <<>> /\ ~truncated) =>
        /\ Len(lines) >= Len(linkList) + 1
        /\ lines[Len(lines) - Len(linkList)] = <<"#", "#", "#", " ", "L", "i", "n", "k", "s">>
        /\ \A k \in 1..Len(linkList) :
               lines[Len(lines) - Len(linkList) + k]
                   = <<"@">> \o linkList[k].ref \o <<" ">> \o linkList[k].href

\* The output lines appended during the shell pass.
ShellLines == {i \in 1..Len(prov) : prov[i].pass = "shell"}

\* C9: the shell pass is entered only with includeShell set and shell roots
\* at hand; its lines come before every other line; they are at most 60;
\* and outside the pass the shell-mode flag is off, the shell budget is 0 and
\* the walk mode is main, as they were before it.
C9_ShellPassIsBounded ==
    /\ (pc \in {"withShell", "shell"} \/ ShellLines # {}) => (includeShell /\ shellRoots # <<>>)
    /\ \A i \in ShellLines : \A j \in 1..i : j \in ShellLines
    /\ Cardinality(ShellLines) <= 60
    /\ pc # "shell" => (~shellMode /\ shellRemaining = 0 /\ walkMode = "main")

\* A finished call whose shell pass used all of its budget and whose main
\* pass appended lines after it.
C9_Witness ==
    /\ pc = "done"
    /\ Cardinality(ShellLines) = 60
    /\ Len(lines) > 60
    /\ ~shellMode

\* The output lines appended by the main pass, in order.
MainPassLines ==
    LET ofMain(i) == prov[i].pass = "main"
        idx == SelectSeq([i \in 1..Len(prov) |-> i], ofMain)
    IN  [k \in 1..Len(idx) |-> lines[idx[k]]]

\* The main pass is over and the call moves on.
MainPassEnds == pc = "main" /\ pc' # "main"

\* C11: when the main pass is over, the fallback sweep is entered exactly if
\* there are roots and the main pass yielded fewer than 8 lines or fewer than
\* 400 characters; otherwise the call goes on to the link table; and the
\* sweep is never entered once the link table is reached.
C11_FallbackFollowsLowYield ==
    /\ [][MainPassEnds =>
            /\ pc' \in {"fallback", "links"}
            /\ pc' = "fallback" <=>
                   (/\ roots # <<>>
                    /\ \/ Len(MainPassLines) < 8
                       \/ sumLengths(MainPassLines) < 400)]_vars
    /\ [][(pc \in {"links", "linkEntries", "done"}) => (pc' # "fallback")]_vars

\* The root the walker is at work under.
WalkedRoot == IF pc = "shell" THEN shellRoots[iter.r - 1] ELSE roots[iter.r - 1]

\* How many levels el lies below the root being walked.
StructuralDepth(el) ==
    Cardinality(SelfAndAncestors(el) \ SelfAndAncestors(WalkedRoot))

\* walk(el, ...) appends a line in this step.
WalkAppends == Walking /\ Top.k = "walk" /\ Len(prov') = Len(prov) + 1

\* The branches of walk that call extractInlineText on the element itself.
InlineKinds == {"heading", "quote", "item", "block", "container", "control"}

\* C12: the depth walk is called with is the element's depth below the root;
\* walk appends nothing for an element deeper than maxDepth; and where walk
\* reads an element's inline text, the nested calls of collectInlineText do
\* not reach below maxDepth either.
C12_DepthIsBoundedByMaxDepth ==
    /\ [](Walking /\ Top.k = "walk" => Top.depth = StructuralDepth(Top.el))
    /\ [][WalkAppends => Top.depth <= maxDepth]_vars
    /\ [][(/\ WalkAppends
           /\ prov'[Len(prov')].el = Top.el
           /\ prov'[Len(prov')].kind \in InlineKinds)
             => Top.depth + collectInlineDepth(Top.el) - 1 <= maxDepth]_vars

\* The cleaned texts of the chips (buttons and anchors) under el, in order.
ChipTexts(el) ==
    LET chips == querySelectorAll(el, {"button", "a"})
    IN  [i \in 1..Len(chips) |-> cleanText(textContent(chips[i]))]

\* The index after the run of digits of s that starts at i.
RECURSIVE DigitRunEnd(_, _)
DigitRunEnd(s, i) == IF i > Len(s) \/ ~IsDigit(s[i]) THEN i ELSE DigitRunEnd(s, i + 1)

\* A "+N" style chip, such as "+2" or "+2 more", and its N.
PlusStyle(item) ==
    /\ Len(item) >= 2
    /\ item[1] = "+"
    /\ SkipWS(item, 2) <= Len(item)
    /\ IsDigit(item[SkipWS(item, 2)])

PlusStyleCount(item) ==
    ParseDigits(SubSeq(item, SkipWS(item, 2), DigitRunEnd(item, SkipWS(item, 2)) - 1))

RECURSIVE SumPlusStyle(_)
SumPlusStyle(items) ==
    IF items = <<>> THEN 0
    ELSE (IF PlusStyle(Head(items)) THEN PlusStyleCount(Head(items)) ELSE 0)
             + SumPlusStyle(Tail(items))

\* text ends with suffix.
EndsWith(text, suffix) ==
    /\ Len(text) >= Len(suffix)
    /\ SubSeq(text, Len(text) - Len(suffix) + 1, Len(text)) = suffix

\* The remainder count of the group under el: the unique chips that are no
\* "+N" chip and are not shown, plus the N of the "+N" chips.
RemainderCount(el) ==
    LET plain(item) == item # <<>> /\ ~PlusStyle(item) /\ ~startsWithReset(item)
        unique == uniqueByLowerCase(SelectSeq(ChipTexts(el), plain), <<>>)
    IN  Len(unique) - Min(Len(unique), maxListItems) + SumPlusStyle(ChipTexts(el))

\* C13: a filter-group line shows no "+N" chip as an item; it ends with
\* "(+K more)", K being the remainder count, exactly when K > 0; and in
\* compact mode the group Color with the chips Red (active), Green, Blue,
\* Yellow and "+2 more" gives "Color: Red, Green, Blue, Yellow (+2 more)"
\* (after the bullet of the walker).
C13_PlusChipsAreFolded ==
    \A i \in 1..Len(prov) :
        prov[i].kind = "filter" =>
            /\ \A k \in 1..Len(ChipTexts(prov[i].el)) :
                   PlusStyle(ChipTexts(prov[i].el)[k]) =>
                       ~includes(prov[i].cleaned, <<" ">> \o ChipTexts(prov[i].el)[k])
            /\ IF RemainderCount(prov[i].el) > 0
               THEN EndsWith(prov[i].cleaned,
                             <<" ", "(", "+">> \o Digits(RemainderCount(prov[i].el))
                                 \o <<" ", "m", "o", "r", "e", ")">>)
               ELSE ~EndsWith(prov[i].cleaned, <<" ", "m", "o", "r", "e", ")">>)
            /\ (/\ filterMode = "compact"
                /\ maxListItems = Infinity
                /\ ChipTexts(prov[i].el) = <<TxtRed, TxtGreen, TxtBlue, TxtYellow, TxtPlus>>)
                   => prov[i].cleaned =
                          <<"-", " ">> \o TxtColor \o <<":", " ">> \o TxtRed \o <<",", " ">>
                              \o TxtGreen \o <<",", " ">> \o TxtBlue \o <<",", " ">> \o TxtYellow
                              \o <<" ", "(", "+", "2", " ", "m", "o", "r", "e", ")">>

\* The number of white-space characters line starts with.
LeadingSpaces(line) == SkipWS(line, 1) - 1

\* The output lines the walker appended for an li element.
WalkedItems ==
    {i \in 1..Len(prov) : prov[i].kind = "item" /\ prov[i].pass \in {"shell", "main"}}

\* C14: the line of a list item is its indentation and then "- "; and the
\* line of an item of a nested list starts with more indentation than the
\* line of the item that encloses it.
C14_NestedItemsAreIndentedDeeper ==
    /\ \A i \in WalkedItems :
           startsWith(sliceFrom(lines[i], LeadingSpaces(lines[i])), <<"-", " ">>)
    /\ \A i, j \in WalkedItems :
           (prov[i].el # prov[j].el /\ contains(prov[i].el, prov[j].el))
               => LeadingSpaces(lines[j]) > LeadingSpaces(lines[i])

\* C15: with dedupe enabled, the fingerprint set holds exactly the
\* fingerprints that stand in the fingerprint window.
C15_SetMirrorsTheWindow ==
    dedupeEnabled => fingerprintSet = Range(fingerprintWindow)

\* C16: with the links option false no URL is registered, no output line
\* carries a reference, no Links section is emitted and the link list stays
\* empty.
C16_NoLinksWhenDisabled ==
    ~linksEnabled =>
        /\ linkList = <<>>
        /\ linkCounter = 0
        /\ DOMAIN linkMap = {}
        /\ \A i \in 1..Len(lines) :
               /\ ~includes(lines[i], <<"@", "L">>)
               /\ prov[i].full = prov[i].cleaned
               /\ prov[i].kind \notin {"linkhead", "linkentry"}

====
